---------------------------- MODULE Spec2Model ----------------------------
(***************************************************************************)
(* GLOF alert notification system: the alert dispatch core of              *)
(* src/glof_alert_system.py and the /alert handler of src/app.py.          *)
(*                                                                         *)
(* Four specifications share the variables:                                *)
(*   Spec      one long-lived GLOFAlertSystem used by one thread: every    *)
(*             public method runs to completion as one action.             *)
(*   SpecQueue one GLOFOfflineManager shared by concurrent threads: each   *)
(*             Queue operation (put, empty, get) is one atomic step;       *)
(*             SpecQueueFair adds that running threads are scheduled.      *)
(*   SpecApp   the Flask /alert handler, which builds a fresh              *)
(*             GLOFAlertSystem for every request.                          *)
(*   SpecUnit  one provider or directory method called on its own, on      *)
(*             inputs drawn from bounded sets.                             *)
(*                                                                         *)
(* Python values: a str is a sequence of one-character strings wrapped in  *)
(* PyStr, None where a str is expected is PyNone, an Optional value is a   *)
(* sequence of length 0 (None) or 1.  The network (SMS provider, mail      *)
(* relay, connectivity probe) is an input of the action that uses it.      *)
(***************************************************************************)
EXTENDS Integers, Sequences, FiniteSets, TLC

VARIABLES
    is_online,       \* GLOFOfflineManager.is_online
    offline_queue,   \* GLOFOfflineManager.offline_queue, head first
    email_provider,  \* TRUE iff GLOFAlertSystem.email_provider is not None
    clock,           \* datetime.now(), in seconds
    nextObj,         \* number of GLOFAlert objects constructed so far
    last,            \* what the most recent public call of Spec did
    sincePut,        \* history: the alerts put since get_queued_alerts last ran
    enq,             \* SpecQueue, history: every alert put, in put order
    pc,              \* SpecQueue: position of each thread in get_queued_alerts
    local,           \* SpecQueue: queued_alerts of each running call
    call,            \* SpecQueue: bookkeeping of each thread's latest call
    delivered,       \* SpecQueue: all alerts returned to each thread so far
    resp,            \* SpecApp: what the latest /alert request did
    unit             \* SpecUnit: the latest call of one method on its own

vars == <<is_online, offline_queue, email_provider, clock, nextObj, last,
          sincePut, enq, pc, local, call, delivered, resp, unit>>

-----------------------------------------------------------------------------
(* Bounds of the model *)

MaxAlerts == 2
MaxClock == 1
MaxPuts == 2
NumThreads == 2
MaxScore == 100
MaxPhoneLen == 4
MaxRecipients == 3
MaxContacts == 3

-----------------------------------------------------------------------------
(* Python values *)

PyStr(s) == [t |-> "str", v |-> s]
PyNone == [t |-> "NoneType", v |-> <<>>]
None == <<>>
Some(x) == <<x>>

\* str.replace for one-character patterns
Replace(s, old, new) == [i \in 1..Len(s) |-> IF s[i] = old THEN new ELSE s[i]]

\* s.startswith(old)
StartsWith(s, old) == Len(old) <= Len(s) /\ SubSeq(s, 1, Len(old)) = old

\* s.replace(old, ''): the occurrences of old found scanning from the left,
\* none overlapping another, are dropped
RECURSIVE Remove(_, _)
Remove(s, old) ==
    IF s = <<>> THEN <<>>
    ELSE IF StartsWith(s, old) THEN Remove(SubSeq(s, Len(old) + 1, Len(s)), old)
    ELSE <<Head(s)>> \o Remove(Tail(s), old)

GLOFRiskLevel == {"LOW", "MODERATE", "HIGH", "CRITICAL"}
UserType == {"LOCAL", "ADMIN", "RESCUE", "EMERGENCY_TEAM"}
AlertStatus == {"PENDING", "SENT", "FAILED", "OFFLINE_QUEUED"}

ALL == PyStr(<<"A", "L", "L">>)
PangongTso == PyStr(<<"P", "a", "n", "g", "o", "n", "g", " ", "T", "s", "o">>)

\* lake names a caller passes; request JSON may carry null
Lakes == {PangongTso, PyNone}

\* risk levels a caller of Spec passes (the level only labels the alert)
Risks == {"HIGH", "CRITICAL"}

\* target_user_types a caller passes; {} stands for None and for []
RoleFilters == {{}, {"LOCAL"}}

-----------------------------------------------------------------------------
(* GLOFContactManager *)

contacts ==
    << [id |-> "Defence_Base", name |-> "DEFENCE AUTHORITY",
        phone |-> "+918956911720", email |-> "bhavsarkrishna02@gmail.com",
        user_type |-> "ADMIN", region |-> "NORTH_REGION",
        lake_area |-> ALL, active |-> TRUE],
       [id |-> "emergency_team_1", name |-> "Emergency Response Team",
        phone |-> "+919765743155", email |-> "rajputmanas593@gmail.com",
        user_type |-> "EMERGENCY_TEAM", region |-> "NORTH_REGION",
        lake_area |-> ALL, active |-> TRUE],
       [id |-> "rescue_pangong_1", name |-> "Local residential store pangong Tso",
        phone |-> "+919699216764", email |-> "yash61304@gmail.com",
        user_type |-> "RESCUE", region |-> "NORTH_REGION",
        lake_area |-> ALL, active |-> TRUE] >>

\* get_contacts_for_lake without the "if contact.active" test
matching_contacts_inactive(self_contacts, lake_name, user_types) ==
    LET covers(c) ==
            /\ (c.lake_area = ALL \/ c.lake_area = lake_name)
            /\ (user_types = {} \/ c.user_type \in user_types)
    IN SelectSeq(self_contacts, covers)

\* the list comprehension of get_contacts_for_lake over self.contacts
matching_contacts(self_contacts, lake_name, user_types) ==
    LET covers(c) ==
            /\ (c.lake_area = ALL \/ c.lake_area = lake_name)
            /\ (user_types = {} \/ c.user_type \in user_types)
            /\ c.active
    IN SelectSeq(self_contacts, covers)

get_contacts_for_lake(lake_name, user_types) == matching_contacts(contacts, lake_name, user_types)


-----------------------------------------------------------------------------
(* Fast2SMSProvider and GLOFEmailProvider *)

\* What the SMS provider's network does to one request: the request succeeds,
\* fails with a requests.RequestException, or fails with another exception
\* (which send_glof_sms does not catch).
SmsNets == {"ok", "http_error", "raise"}

\* [num.replace('+91', '').replace('-', '').replace(' ', '') for num in ...]
clean_number(num) == Remove(Remove(Remove(num, <<"+", "9", "1">>), <<"-">>), <<" ">>)

send_glof_sms(phone_numbers, net) ==
    IF net = "raise"
    THEN [raised |-> TRUE, success |-> FALSE]
    ELSE [raised |-> FALSE, success |-> (net = "ok")]

\* What the mail relay does to one session: the step that raises, if any
\* (connect, starttls, login or quit), and the recipients whose sendmail
\* raises.
MailNets ==
    {[fail |-> "none", reject |-> {}],
     [fail |-> "none", reject |-> {contacts[1].email}],
     [fail |-> "login", reject |-> {}]}

\* The recipient loop.  to is the To headers msg carries, attempts the
\* messages handed to sendmail: msg['To'] = recipient adds a header, which
\* "del msg['To']" takes away again only after a sendmail that did not raise.
RECURSIVE send_loop(_, _, _, _, _, _)
send_loop(recipients, net, failed_recipients, successful_sends, to, attempts) ==
    IF recipients = <<>>
    THEN [failed_recipients |-> failed_recipients,
          successful_sends |-> successful_sends, attempts |-> attempts]
    ELSE IF Head(recipients) \in net.reject
         THEN send_loop(Tail(recipients), net,
                        Append(failed_recipients, Head(recipients)),
                        successful_sends, Append(to, Head(recipients)),
                        Append(attempts, [rcpt |-> Head(recipients),
                                          to |-> Append(to, Head(recipients))]))
         ELSE send_loop(Tail(recipients), net, failed_recipients,
                        successful_sends + 1, <<>>,
                        Append(attempts, [rcpt |-> Head(recipients),
                                          to |-> Append(to, Head(recipients))]))

email_result(r) ==
    [success |-> (Len(r.failed_recipients) = 0), error |-> FALSE,
     successful_sends |-> r.successful_sends,
     failed_recipients |-> r.failed_recipients]

\* the result of the "except Exception" handler of send_glof_email
email_error ==
    [success |-> FALSE, error |-> TRUE, successful_sends |-> 0,
     failed_recipients |-> <<>>]

\* One run of the try block of send_glof_email: whether smtplib.SMTP(...)
\* returned a session, whether server.quit() was called, whether the block
\* raised, and what the recipient loop did.
smtp_session(recipients, net) ==
    IF net.fail = "connect"
    THEN [opened |-> FALSE, quit |-> FALSE, raised |-> TRUE,
          loop |-> send_loop(<<>>, net, <<>>, 0, <<>>, <<>>)]
    ELSE IF net.fail \in {"starttls", "login"}
    THEN [opened |-> TRUE, quit |-> FALSE, raised |-> TRUE,
          loop |-> send_loop(<<>>, net, <<>>, 0, <<>>, <<>>)]
    ELSE [opened |-> TRUE, quit |-> TRUE, raised |-> (net.fail = "quit"),
          loop |-> send_loop(recipients, net, <<>>, 0, <<>>, <<>>)]

session_result(session) ==
    IF session.raised THEN email_error ELSE email_result(session.loop)

send_glof_email(recipients, net) ==
    session_result(smtp_session(recipients, net))

-----------------------------------------------------------------------------
(* GLOFAlertSystem *)

NonEmpty(x) == x # ""

\* [c.phone for c in contacts if c.phone], [c.email for c in contacts if c.email]
phone_numbers(cs) == SelectSeq([i \in 1..Len(cs) |-> cs[i].phone], NonEmpty)
email_addresses(cs) == SelectSeq([i \in 1..Len(cs) |-> cs[i].email], NonEmpty)

\* One channel call, or none: called, whether the call raised, the network
\* outcome seen, the result's success flag and the result itself.
NotCalled ==
    [called |-> FALSE, raised |-> FALSE, net |-> "none", success |-> FALSE,
     result |-> None]

sms_call(numbers, smsNet) ==
    [called |-> TRUE, raised |-> send_glof_sms(numbers, smsNet).raised,
     net |-> smsNet, success |-> send_glof_sms(numbers, smsNet).success,
     result |-> None]

email_call(addresses, mailNet) ==
    [called |-> TRUE, raised |-> FALSE, net |-> "none",
     success |-> send_glof_email(addresses, mailNet).success,
     result |-> Some(send_glof_email(addresses, mailNet))]

\* _send_alert: "if phone_numbers:" and the call under it
alert_sms(numbers, smsNet) ==
    IF numbers # <<>> THEN sms_call(numbers, smsNet) ELSE NotCalled

\* Variant: the email attempt does not look at is_online.
alert_email_offline(addresses, provider, online, mailNet) ==
    IF provider /\ addresses # <<>>
    THEN email_call(addresses, mailNet) ELSE NotCalled

\* _send_alert: "if self.email_provider and email_addresses:" and
\* "if self.offline_manager.is_online:" and the call under them
alert_email(addresses, provider, online, mailNet) ==
    IF provider /\ addresses # <<>> /\ online
    THEN email_call(addresses, mailNet) ELSE NotCalled

Channels(sms, email) ==
    (IF sms.called THEN <<"sms">> ELSE <<>>)
        \o (IF email.called THEN <<"email">> ELSE <<>>)

\* The result of a dispatch: raised (an exception left the code), ret, the
\* alert as the code left it, the channels called in call order, the alerts
\* put on the offline queue, the SMS network outcome seen ("none" when SMS
\* was not called), the email result (None when email was not called) and
\* the statuses the alert went through.
Result(raised, ret, alert, trace, put, sms, email, statuses) ==
    [raised |-> raised, ret |-> ret, alert |-> alert, trace |-> trace,
     put |-> put, sms |-> sms.net, email |-> email.result,
     statuses |-> statuses]

Queued(alert) == [alert EXCEPT !.status = "OFFLINE_QUEUED"]
\* Variant: the status update is forgotten when a channel succeeded.
Sent_no_status(alert, now) == [alert EXCEPT !.sent_at = Some(now)]

\* Variant: sent_at is not stamped.
Sent_no_stamp(alert, now) == [alert EXCEPT !.status = "SENT"]

Sent(alert, now) == [alert EXCEPT !.status = "SENT", !.sent_at = Some(now)]
Failed(alert) == [alert EXCEPT !.status = "FAILED"]

\* Variant: a failed SMS never queues the alert.
send_alert_body_no_queue(alert, online, sms, email, now) ==
    IF sms.raised
    THEN Result(TRUE, FALSE, alert, <<"sms">>, <<>>, sms, NotCalled,
                <<alert.status>>)
    ELSE IF sms.success \/ email.success
    THEN Result(FALSE, TRUE, Sent(alert, now), Channels(sms, email), <<>>,
                sms, email, <<alert.status, "SENT">>)
    ELSE Result(FALSE, FALSE, Failed(alert), Channels(sms, email), <<>>,
                sms, email, <<alert.status, "FAILED">>)

\* Variant: an alert that failed on both channels is kept for a resend.
send_alert_body_keep_failed(alert, online, sms, email, now) ==
    IF sms.raised
    THEN Result(TRUE, FALSE, alert, <<"sms">>, <<>>, sms, NotCalled,
                <<alert.status>>)
    ELSE IF sms.called /\ ~sms.success /\ ~online
    THEN Result(FALSE, TRUE, Queued(alert), <<"sms">>, <<Queued(alert)>>,
                sms, NotCalled, <<alert.status, "OFFLINE_QUEUED">>)
    ELSE IF sms.success \/ email.success
    THEN Result(FALSE, TRUE, Sent(alert, now), Channels(sms, email), <<>>,
                sms, email, <<alert.status, "SENT">>)
    ELSE Result(FALSE, FALSE, Failed(alert), Channels(sms, email),
                <<Failed(alert)>>, sms, email, <<alert.status, "FAILED">>)

\* Variant: a failed SMS queues the alert whatever is_online says.
send_alert_body_any_queue(alert, online, sms, email, now) ==
    IF sms.raised
    THEN Result(TRUE, FALSE, alert, <<"sms">>, <<>>, sms, NotCalled,
                <<alert.status>>)
    ELSE IF sms.called /\ ~sms.success
    THEN Result(FALSE, TRUE, Queued(alert), <<"sms">>, <<Queued(alert)>>,
                sms, NotCalled, <<alert.status, "OFFLINE_QUEUED">>)
    ELSE IF sms.success \/ email.success
    THEN Result(FALSE, TRUE, Sent(alert, now), Channels(sms, email), <<>>,
                sms, email, <<alert.status, "SENT">>)
    ELSE Result(FALSE, FALSE, Failed(alert), Channels(sms, email), <<>>,
                sms, email, <<alert.status, "FAILED">>)

\* The try block of _send_alert, given what its two channel calls did.
send_alert_body(alert, online, sms, email, now) ==
    IF sms.raised
    THEN Result(TRUE, FALSE, alert, <<"sms">>, <<>>, sms, NotCalled,
                <<alert.status>>)
    ELSE IF sms.called /\ ~sms.success /\ ~online
    THEN Result(FALSE, TRUE, Queued(alert), <<"sms">>, <<Queued(alert)>>,
                sms, NotCalled, <<alert.status, "OFFLINE_QUEUED">>)
    ELSE IF sms.success \/ email.success
    THEN Result(FALSE, TRUE, Sent(alert, now), Channels(sms, email), <<>>,
                sms, email, <<alert.status, "SENT">>)
    ELSE Result(FALSE, FALSE, Failed(alert), Channels(sms, email), <<>>,
                sms, email, <<alert.status, "FAILED">>)

send_alert_try(alert, cs, online, provider, smsNet, mailNet, now) ==
    send_alert_body(alert, online,
                    alert_sms(phone_numbers(cs), smsNet),
                    alert_email(email_addresses(cs), provider, online, mailNet),
                    now)

\* Variant: the handler's queuing runs like a finally block, after every
\* run of the try block.
send_alert_except_always(r, online) ==
    IF ~online
    THEN [r EXCEPT !.raised = FALSE, !.ret = TRUE, !.alert = Queued(r.alert),
                   !.put = <<Queued(r.alert)>>,
                   !.statuses = Append(r.statuses, "OFFLINE_QUEUED")]
    ELSE [r EXCEPT !.raised = FALSE, !.ret = (~r.raised /\ r.ret)]

\* The except Exception handler of _send_alert, applied to what the try
\* block did.
send_alert_except(r, online) ==
    IF ~r.raised THEN r
    ELSE IF ~online
    THEN [r EXCEPT !.raised = FALSE, !.ret = TRUE, !.alert = Queued(r.alert),
                   !.put = <<Queued(r.alert)>>,
                   !.statuses = Append(r.statuses, "OFFLINE_QUEUED")]
    ELSE [r EXCEPT !.raised = FALSE, !.ret = FALSE]

_send_alert(alert, cs, online, provider, smsNet, mailNet, now) ==
    send_alert_except(
        send_alert_try(alert, cs, online, provider, smsNet, mailNet, now),
        online)

\* _send_message: "if self.offline_manager.is_online and phone_numbers:"
message_sms(numbers, online, smsNet) ==
    IF online /\ numbers # <<>> THEN sms_call(numbers, smsNet) ELSE NotCalled

\* _send_message: "if self.email_provider and
\* self.offline_manager.is_online and email_addresses:"
message_email(addresses, provider, online, mailNet) ==
    IF provider /\ online /\ addresses # <<>>
    THEN email_call(addresses, mailNet) ELSE NotCalled

\* The try block of _send_message, given what its two channel calls did, and
\* its except Exception handler.
send_message_body(sms, email) ==
    IF sms.raised
    THEN Result(FALSE, FALSE, None, <<"sms">>, <<>>, sms, NotCalled, <<>>)
    ELSE Result(FALSE, sms.success \/ email.success, None,
                Channels(sms, email), <<>>, sms, email, <<>>)

_send_message(cs, online, provider, smsNet, mailNet) ==
    send_message_body(
        message_sms(phone_numbers(cs), online, smsNet),
        message_email(email_addresses(cs), provider, online, mailNet))

\* The alert record send_glof_alert builds.  obj is the identity of the
\* Python object; id is the f-string of lake name and clock second.
GLOFAlert(obj, glacial_lake, risk_level, cs, now) ==
    [obj |-> obj,
     id |-> [lake |-> Replace(glacial_lake.v, " ", "_"), stamp |-> now],
     glacial_lake |-> glacial_lake,
     risk_level |-> risk_level,
     contacts |-> [i \in 1..Len(cs) |-> cs[i].id],
     status |-> "PENDING",
     created_at |-> now,
     sent_at |-> None]

\* "if not target_user_types:" of send_glof_alert and send_all_clear
target_types(target_user_types) ==
    IF target_user_types = {} THEN UserType ELSE target_user_types

\* A public call's result: a dispatch result and the contacts resolved.
NoDispatch(cs, raised) ==
    [raised |-> raised, ret |-> FALSE, contacts |-> cs, alert |-> None,
     trace |-> <<>>, put |-> <<>>, sms |-> "none", email |-> None,
     statuses |-> <<>>]

Dispatched(cs, r) ==
    [raised |-> r.raised, ret |-> r.ret, contacts |-> cs,
     alert |-> IF r.alert = None THEN None ELSE Some(r.alert),
     trace |-> r.trace, put |-> r.put, sms |-> r.sms, email |-> r.email,
     statuses |-> r.statuses]

\* Variant: the "if not contacts:" return is missing.
glof_alert_body_no_check(cs, obj, glacial_lake, risk_level, online, provider, smsNet, mailNet, now) ==
    IF glacial_lake.t # "str" THEN NoDispatch(cs, TRUE)
    ELSE Dispatched(cs,
            _send_alert(GLOFAlert(obj, glacial_lake, risk_level, cs, now),
                        cs, online, provider, smsNet, mailNet, now))

\* The try block of send_glof_alert from "if not contacts:" on.
\* glacial_lake.replace raises when the lake name is not a str.
glof_alert_body(cs, obj, glacial_lake, risk_level, online, provider, smsNet, mailNet, now) ==
    IF cs = <<>> THEN NoDispatch(cs, FALSE)
    ELSE IF glacial_lake.t # "str" THEN NoDispatch(cs, TRUE)
    ELSE Dispatched(cs,
            _send_alert(GLOFAlert(obj, glacial_lake, risk_level, cs, now),
                        cs, online, provider, smsNet, mailNet, now))

send_glof_alert_try(obj, glacial_lake, risk_level, target_user_types, online, provider, smsNet, mailNet, now) ==
    glof_alert_body(
        get_contacts_for_lake(glacial_lake, target_types(target_user_types)),
        obj, glacial_lake, risk_level, online, provider, smsNet, mailNet, now)

\* The except Exception handler of send_glof_alert and of send_all_clear,
\* applied to what the try block did.
public_except(r) ==
    IF r.raised THEN [r EXCEPT !.raised = FALSE, !.ret = FALSE] ELSE r

\* Variant: send_glof_alert without its except handler.
send_glof_alert_no_except(obj, glacial_lake, risk_level, target_user_types, online, provider, smsNet, mailNet, now) ==
    send_glof_alert_try(obj, glacial_lake, risk_level, target_user_types,
                        online, provider, smsNet, mailNet, now)

send_glof_alert(obj, glacial_lake, risk_level, target_user_types, online, provider, smsNet, mailNet, now) ==
    public_except(
        send_glof_alert_try(obj, glacial_lake, risk_level, target_user_types,
                            online, provider, smsNet, mailNet, now))

\* One logging call: the start of its message, and the lake name, the risk
\* level and the recipient names the message is formatted from (None for
\* what it does not mention).
LogEntry(msg, lake, risk, names) == [msg |-> msg, lake |-> lake, risk |-> risk, names |-> names]

\* the logging calls reached through the SMS call of _send_alert
sms_log(sms) ==
    IF sms = "ok" THEN <<LogEntry("SMS sent to", None, None, None)>>
    ELSE IF sms = "http_error"
    THEN <<LogEntry("SMS failed", None, None, None),
           LogEntry("SMS failed", None, None, None)>>
    ELSE IF sms = "raise"
    THEN <<LogEntry("Error in _send_alert", None, None, None)>>
    ELSE <<>>

\* add_offline_alert: the entry names the alert id
queued_log(put) == [i \in 1..Len(put) |-> LogEntry("Alert queued offline", None, None, None)]

\* the logging calls reached through the email call of _send_alert
email_log(email) ==
    IF email = None THEN <<>>
    ELSE IF email[1].error
    THEN <<LogEntry("GLOF email sending error", None, None, None),
           LogEntry("Email failed", None, None, None)>>
    ELSE [i \in 1..Len(email[1].failed_recipients) |-> LogEntry("Failed to send GLOF email to", None, None, None)]
         \o <<LogEntry("GLOF emails sent successfully to", None, None, None)>>
         \o (IF email[1].success THEN <<>>
             ELSE <<LogEntry("Email failed", None, None, None)>>)

\* the two branches of "if success:" in send_glof_alert
outcome_log(ret, cs, glacial_lake, risk_level) ==
    IF ret
    THEN <<LogEntry("GLOF alert sent successfully for", Some(glacial_lake), Some(risk_level), None),
           LogEntry("Recipients", None, None, Some([i \in 1..Len(cs) |-> cs[i].name]))>>
    ELSE <<LogEntry("Failed to send GLOF alert for", Some(glacial_lake), None, None)>>

\* Everything one send_glof_alert call with result r writes to the log.
glof_alert_log(r, glacial_lake, risk_level) ==
    IF r.contacts = <<>>
    THEN <<LogEntry("No contacts found for glacial lake", Some(glacial_lake), None, None)>>
    ELSE IF r.alert = None
    THEN <<LogEntry("Error sending GLOF alert", None, None, None)>>
    ELSE sms_log(r.sms) \o queued_log(r.put) \o email_log(r.email)
         \o outcome_log(r.ret, r.contacts, glacial_lake, risk_level)

\* The try block of send_all_clear from "if not contacts:" on.
all_clear_body(cs, online, provider, smsNet, mailNet) ==
    IF cs = <<>> THEN NoDispatch(cs, FALSE)
    ELSE Dispatched(cs, _send_message(cs, online, provider, smsNet, mailNet))

send_all_clear_try(glacial_lake, target_user_types, online, provider, smsNet, mailNet) ==
    all_clear_body(
        get_contacts_for_lake(glacial_lake, target_types(target_user_types)),
        online, provider, smsNet, mailNet)

send_all_clear(glacial_lake, target_user_types, online, provider, smsNet, mailNet) ==
    public_except(
        send_all_clear_try(glacial_lake, target_user_types, online, provider,
                           smsNet, mailNet))

-----------------------------------------------------------------------------
(* GLOFOfflineManager *)

\* queue.Queue, unbounded: put appends, empty tests, get removes the head
\* (and blocks while there is none).
queue_put(q, item) == Append(q, item)
queue_empty(q) == q = <<>>
\* Variant: get returns the head and leaves it on the queue.
queue_get_peek(q) == [item |-> Head(q), queue |-> q]

queue_get(q) == [item |-> Head(q), queue |-> Tail(q)]

add_offline_alert(q, alert) == queue_put(q, alert)

\* Variant: the loop builds its list newest first.
RECURSIVE drain_loop_prepend(_, _)
drain_loop_prepend(q, queued_alerts) ==
    IF queue_empty(q)
    THEN [ret |-> queued_alerts, queue |-> q]
    ELSE drain_loop_prepend(queue_get(q).queue,
                            <<queue_get(q).item>> \o queued_alerts)

\* The while loop of get_queued_alerts, run without interruption.
RECURSIVE drain_loop(_, _)
drain_loop(q, queued_alerts) ==
    IF queue_empty(q)
    THEN [ret |-> queued_alerts, queue |-> q]
    ELSE drain_loop(queue_get(q).queue, Append(queued_alerts, queue_get(q).item))

get_queued_alerts(q) == drain_loop(q, <<>>)

-----------------------------------------------------------------------------
(* Spec: one GLOFAlertSystem, one thread *)

Threads == 1..NumThreads

NoCall ==
    [op |-> "none", raised |-> FALSE, ret |-> FALSE, online |-> TRUE,
     contacts |-> <<>>, alert |-> None, trace |-> <<>>, sms |-> "none",
     email |-> None, statuses |-> <<>>, twin |-> <<>>, drained |-> <<>>,
     qBefore |-> <<>>, qAfter |-> <<>>, putBefore |-> <<>>, log |-> <<>>]

NoRequest ==
    [called |-> FALSE, risk_score |-> 0, risk_level |-> "MODERATE",
     status |-> "failed", alert |-> None, online |-> TRUE, queue |-> <<>>]

NoUnit == [op |-> "none"]

Init ==
    /\ is_online = TRUE
    /\ offline_queue = <<>>
    /\ email_provider \in BOOLEAN
    /\ clock = 0
    /\ nextObj = 0
    /\ last = NoCall
    /\ sincePut = <<>>
    /\ enq = <<>>
    /\ pc = [t \in Threads |-> "idle"]
    /\ local = [t \in Threads |-> <<>>]
    /\ call = [t \in Threads |-> [start |-> 0, end |-> 0, ret |-> None]]
    /\ delivered = [t \in Threads |-> <<>>]
    /\ resp = NoRequest
    /\ unit = NoUnit

\* The fields of last that a dispatching call fills from its result r; q is
\* the queue the call leaves, twin the channel trace of the other dispatching
\* operation on the same inputs.  log holds what send_glof_alert logged.
Outcome(op, r, q, twin) ==
    [op |-> op, raised |-> r.raised, ret |-> r.ret, online |-> is_online,
     contacts |-> r.contacts, alert |-> r.alert, trace |-> r.trace,
     sms |-> r.sms, email |-> r.email, statuses |-> r.statuses,
     twin |-> twin, drained |-> <<>>, qBefore |-> offline_queue,
     qAfter |-> q, putBefore |-> sincePut, log |-> <<>>]

After_put(q, put) == IF put = <<>> THEN q ELSE add_offline_alert(q, put[1])

SendGlofAlert ==
    \E glacial_lake \in Lakes, risk_level \in Risks,
       target_user_types \in RoleFilters, smsNet \in SmsNets,
       mailNet \in MailNets :
        LET r == send_glof_alert(nextObj + 1, glacial_lake, risk_level,
                                 target_user_types, is_online, email_provider,
                                 smsNet, mailNet, clock)
            c == send_all_clear(glacial_lake, target_user_types, is_online,
                                email_provider, smsNet, mailNet)
            q == After_put(offline_queue, r.put)
        IN  /\ nextObj < MaxAlerts
            /\ offline_queue' = q
            /\ sincePut' = sincePut \o r.put
            /\ nextObj' = IF r.alert = None THEN nextObj ELSE nextObj + 1
            /\ last' = [Outcome("send_glof_alert", r, q, c.trace) EXCEPT
                            !.log = glof_alert_log(r, glacial_lake, risk_level)]
            /\ UNCHANGED <<is_online, email_provider, clock, enq, pc, local,
                           call, delivered, resp, unit>>

SendAllClear ==
    \E glacial_lake \in Lakes, target_user_types \in RoleFilters,
       smsNet \in SmsNets, mailNet \in MailNets :
        LET r == send_all_clear(glacial_lake, target_user_types, is_online,
                                email_provider, smsNet, mailNet)
            a == send_glof_alert(nextObj + 1, glacial_lake, "CRITICAL",
                                 target_user_types, is_online, email_provider,
                                 smsNet, mailNet, clock)
        IN  /\ last' = Outcome("send_all_clear", r, offline_queue, a.trace)
            /\ UNCHANGED <<is_online, offline_queue, email_provider, clock,
                           nextObj, sincePut, enq, pc, local, call, delivered,
                           resp, unit>>

GetQueuedAlerts ==
    LET r == get_queued_alerts(offline_queue)
    IN  /\ offline_queue' = r.queue
        /\ sincePut' = <<>>
        /\ last' = [NoCall EXCEPT !.op = "get_queued_alerts",
                                  !.online = is_online,
                                  !.drained = r.ret,
                                  !.qBefore = offline_queue,
                                  !.qAfter = r.queue,
                                  !.putBefore = sincePut]
        /\ UNCHANGED <<is_online, email_provider, clock, nextObj, enq, pc,
                       local, call, delivered, resp, unit>>

\* check_connectivity: the probe succeeds or raises.
CheckConnectivity ==
    \E reachable \in BOOLEAN :
        /\ is_online' = reachable
        /\ UNCHANGED <<offline_queue, email_provider, clock, nextObj, last,
                       sincePut, enq, pc, local, call, delivered, resp, unit>>

Tick ==
    /\ clock < MaxClock
    /\ clock' = clock + 1
    /\ UNCHANGED <<is_online, offline_queue, email_provider, nextObj, last,
                   sincePut, enq, pc, local, call, delivered, resp, unit>>

Next ==
    \/ SendGlofAlert
    \/ SendAllClear
    \/ GetQueuedAlerts
    \/ CheckConnectivity
    \/ Tick

Spec == Init /\ [][Next]_vars

-----------------------------------------------------------------------------
(* SpecQueue: one GLOFOfflineManager, concurrent callers *)

\* The alert a caller hands to add_offline_alert: a fresh object.
QueuedAlert(obj) ==
    Queued(GLOFAlert(obj, PangongTso, "CRITICAL", contacts, 0))

\* add_offline_alert by any thread: Queue.put is one atomic step.
AddOfflineAlert ==
    /\ nextObj < MaxPuts
    /\ nextObj' = nextObj + 1
    /\ offline_queue' = add_offline_alert(offline_queue, QueuedAlert(nextObj + 1))
    /\ enq' = Append(enq, QueuedAlert(nextObj + 1))
    /\ UNCHANGED <<is_online, email_provider, clock, last, sincePut, pc,
                   local, call, delivered, resp, unit>>

\* Thread t enters get_queued_alerts: queued_alerts = [].
DrainCall(t) ==
    /\ pc[t] = "idle"
    /\ pc' = [pc EXCEPT ![t] = "empty"]
    /\ local' = [local EXCEPT ![t] = <<>>]
    /\ call' = [call EXCEPT ![t] = [start |-> Len(enq), end |-> Len(enq),
                                    ret |-> None]]
    /\ UNCHANGED <<is_online, offline_queue, email_provider, clock, nextObj,
                   last, sincePut, enq, delivered, resp, unit>>

\* Thread t evaluates "while not self.offline_queue.empty()": it goes on to
\* the get, or leaves the loop and returns queued_alerts (its frame, and so
\* local[t], is gone).
DrainEmpty(t) ==
    /\ pc[t] = "empty"
    /\ IF queue_empty(offline_queue)
       THEN /\ pc' = [pc EXCEPT ![t] = "idle"]
            /\ call' = [call EXCEPT ![t].end = Len(enq),
                                    ![t].ret = Some(local[t])]
            /\ delivered' = [delivered EXCEPT ![t] = @ \o local[t]]
            /\ local' = [local EXCEPT ![t] = <<>>]
       ELSE /\ pc' = [pc EXCEPT ![t] = "get"]
            /\ UNCHANGED <<call, delivered, local>>
    /\ UNCHANGED <<is_online, offline_queue, email_provider, clock, nextObj,
                   last, sincePut, enq, resp, unit>>

\* Thread t runs "queued_alerts.append(self.offline_queue.get())": get blocks
\* while the queue is empty.
DrainGet(t) ==
    /\ pc[t] = "get"
    /\ ~queue_empty(offline_queue)
    /\ offline_queue' = queue_get(offline_queue).queue
    /\ local' = [local EXCEPT ![t] = Append(@, queue_get(offline_queue).item)]
    /\ pc' = [pc EXCEPT ![t] = "empty"]
    /\ UNCHANGED <<is_online, email_provider, clock, nextObj, last, sincePut,
                   enq, call, delivered, resp, unit>>

NextQueue ==
    \/ AddOfflineAlert
    \/ \E t \in Threads : DrainCall(t)
    \/ \E t \in Threads : DrainEmpty(t)
    \/ \E t \in Threads : DrainGet(t)

SpecQueue == Init /\ [][NextQueue]_vars

\* A thread inside get_queued_alerts keeps being scheduled: each step of the
\* loop that stays enabled is taken.  Nothing obliges anybody to call
\* add_offline_alert or get_queued_alerts.
Scheduled == \A t \in Threads : WF_vars(DrainEmpty(t)) /\ WF_vars(DrainGet(t))

SpecQueueFair == SpecQueue /\ Scheduled

-----------------------------------------------------------------------------
(* SpecApp: the /alert handler of app.py *)

Scores == 0..MaxScore

\* Variant: the thresholds are inclusive.
risk_level_of_inclusive(risk_score) ==
    IF risk_score >= 70 THEN "CRITICAL"
    ELSE IF risk_score >= 40 THEN "HIGH"
    ELSE "MODERATE"

\* risk_level = CRITICAL if risk_score > 70 else HIGH if risk_score > 40
\* else MODERATE
risk_level_of(risk_score) ==
    IF risk_score > 70 THEN "CRITICAL"
    ELSE IF risk_score > 40 THEN "HIGH"
    ELSE "MODERATE"

\* Variant: a new offline manager assumes it is offline.
GLOFOfflineManager_offline == [is_online |-> FALSE, offline_queue |-> <<>>]

\* GLOFOfflineManager(): the offline manager of a GLOFAlertSystem just built
GLOFOfflineManager == [is_online |-> TRUE, offline_queue |-> <<>>]

\* What a request leaves behind: the level chosen, the JSON status, and the
\* alert, connectivity flag and offline queue of the GLOFAlertSystem the
\* handler built (new offline manager, email configured).
Response(risk_score, risk_level, r) ==
    [called |-> TRUE, risk_score |-> risk_score, risk_level |-> risk_level,
     status |-> IF r.ret THEN "success" ELSE "failed", alert |-> r.alert,
     online |-> GLOFOfflineManager.is_online,
     queue |-> After_put(GLOFOfflineManager.offline_queue, r.put)]

send_alert ==
    \E lake_name \in Lakes, risk_score \in Scores, smsNet \in SmsNets,
       mailNet \in MailNets :
        /\ resp' = Response(risk_score, risk_level_of(risk_score),
                       send_glof_alert(1, lake_name, risk_level_of(risk_score),
                                       {}, GLOFOfflineManager.is_online, TRUE,
                                       smsNet, mailNet, clock))
        /\ UNCHANGED <<is_online, offline_queue, email_provider, clock,
                       nextObj, last, sincePut, enq, pc, local, call,
                       delivered, unit>>

\* The process as started by app.run: no GLOFAlertSystem exists between
\* requests, so the variables of Spec keep their values.
InitApp == Init /\ email_provider = TRUE

NextApp == send_alert

SpecApp == InitApp /\ [][NextApp]_vars

-----------------------------------------------------------------------------
(* SpecUnit: Fast2SMSProvider, GLOFEmailProvider and GLOFContactManager,   *)
(* each method called on its own                                           *)

\* phone numbers a contact may carry, as strings over these characters
PhoneChars == {"+", "9", "1", "-", " ", "5"}
PhoneNumbers == UNION {[1..n -> PhoneChars] : n \in 0..MaxPhoneLen}

\* recipient lists and mail relay behaviours
Addresses == {contacts[1].email, contacts[2].email}
RecipientLists == UNION {[1..n -> Addresses] : n \in 0..MaxRecipients}
MailSessions == [fail : {"none", "connect", "starttls", "login", "quit"}, reject : SUBSET Addresses]

\* contact lists a GLOFContactManager may hold, lake names and role filters
TsoKar == PyStr(<<"T", "s", "o", " ", "K", "a", "r">>)
UnitRoles == {"LOCAL", "ADMIN", "RESCUE"}
ContactShapes == [user_type : UnitRoles, lake_area : {ALL, PangongTso, TsoKar}, active : BOOLEAN]
GLOFContact(id, shape) == [id |-> id, user_type |-> shape.user_type, lake_area |-> shape.lake_area, active |-> shape.active]
Directories == UNION {[1..n -> ContactShapes] : n \in 0..MaxContacts}
UnitLakes == {PangongTso, TsoKar}
UnitFilters == {{}, {"LOCAL"}, {"LOCAL", "ADMIN"}, UnitRoles}

unitRest == <<is_online, offline_queue, email_provider, clock, nextObj, last, sincePut, enq, pc, local, call, delivered, resp>>

\* Each behaviour of SpecUnit is one call: the actions start from NoUnit.

\* send_glof_sms on a one-number list: the number it puts into the payload
CleanNumber ==
    /\ unit = NoUnit
    /\ \E num \in PhoneNumbers :
        unit' = [op |-> "send_glof_sms", num |-> num,
                 clean |-> clean_number(num)]
    /\ UNCHANGED unitRest

SendGlofEmail ==
    /\ unit = NoUnit
    /\ \E recipients \in RecipientLists, net \in MailSessions :
        unit' = [op |-> "send_glof_email", recipients |-> recipients,
                 net |-> net, session |-> smtp_session(recipients, net),
                 result |-> send_glof_email(recipients, net)]
    /\ UNCHANGED unitRest

GetContactsForLake ==
    /\ unit = NoUnit
    /\ \E d \in Directories, lake_name \in UnitLakes, user_types \in UnitFilters :
        unit' = [op |-> "get_contacts_for_lake",
                 self_contacts |-> [i \in DOMAIN d |-> GLOFContact(i, d[i])],
                 lake_name |-> lake_name, user_types |-> user_types,
                 ret |-> matching_contacts([i \in DOMAIN d |-> GLOFContact(i, d[i])], lake_name, user_types)]
    /\ UNCHANGED unitRest

NextUnit ==
    \/ CleanNumber
    \/ SendGlofEmail
    \/ GetContactsForLake

\* the providers and the directory alone: no email provider of an alert system
InitUnit == Init /\ email_provider = FALSE

SpecUnit == InitUnit /\ [][NextUnit]_vars

-----------------------------------------------------------------------------
(* Properties *)

IsAlertCall == last.op = "send_glof_alert"
SmsFailed == last.sms \in {"http_error", "raise"}
HasPhone == phone_numbers(last.contacts) # <<>>
HasEmail == email_addresses(last.contacts) # <<>>
EmailCalled == last.email # None
EmailSucceeded == last.email # None /\ last.email[1].success
EmailFailed == last.email # None /\ ~last.email[1].success
HasAlert == last.alert # None
StatusIs(st) == last.alert # None /\ last.alert[1].status = st

\* C1: when send_glof_alert resolves a contact with a phone number, the SMS
\* attempt fails and is_online is false, the alert ends OFFLINE_QUEUED, the
\* offline queue is the queue before the call with that alert appended, no
\* email is attempted and the call returns true.
C1_OfflineQueued ==
    (IsAlertCall /\ HasPhone /\ SmsFailed /\ ~last.online) =>
        /\ StatusIs("OFFLINE_QUEUED")
        /\ last.qAfter = Append(last.qBefore, last.alert[1])
        /\ last.trace = <<"sms">>
        /\ ~EmailCalled
        /\ last.ret = TRUE

C1_Witness ==
    /\ IsAlertCall /\ HasPhone /\ last.sms = "http_error" /\ ~last.online
    /\ Len(last.qBefore) = 1
    /\ Len(offline_queue) = 2
    /\ last.ret = TRUE

\* C2: when the SMS attempt of send_glof_alert fails, is_online is true,
\* email is configured, a contact has an address and the email send
\* succeeds, the alert ends SENT, the call returns true and nothing is
\* queued; and whenever the call reaches its final status update it returns
\* the OR of the two channels' successes.
C2_EmailFallback ==
    /\ (IsAlertCall /\ SmsFailed /\ last.online /\ email_provider
            /\ HasEmail /\ EmailSucceeded) =>
            /\ StatusIs("SENT")
            /\ last.ret = TRUE
            /\ last.qAfter = last.qBefore
    /\ (IsAlertCall /\ (StatusIs("SENT") \/ StatusIs("FAILED"))) =>
            (last.ret = ((last.sms = "ok") \/ EmailSucceeded))

C2_Witness ==
    /\ IsAlertCall /\ last.sms = "http_error" /\ last.online
    /\ email_provider /\ HasEmail /\ EmailSucceeded
    /\ StatusIs("SENT")
    /\ last.trace = <<"sms", "email">>

\* C3: when is_online is true and both the SMS attempt and the email attempt
\* of send_glof_alert fail, the alert ends FAILED, the call returns false and
\* the offline queue is unchanged.
C3_BothFail ==
    (IsAlertCall /\ last.online /\ SmsFailed /\ EmailFailed) =>
        /\ StatusIs("FAILED")
        /\ last.ret = FALSE
        /\ last.qAfter = last.qBefore

C3_Witness ==
    /\ IsAlertCall /\ last.online /\ last.sms = "http_error" /\ EmailFailed
    /\ last.qBefore # <<>>
    /\ StatusIs("FAILED")

\* C4: when get_contacts_for_lake returns no contact, send_glof_alert returns
\* false, calls neither channel, creates no alert record and leaves the
\* offline queue as it was.
C4_NoContacts ==
    (IsAlertCall /\ last.contacts = <<>>) =>
        /\ last.ret = FALSE
        /\ last.trace = <<>>
        /\ last.sms = "none"
        /\ ~EmailCalled
        /\ ~HasAlert
        /\ last.qAfter = last.qBefore

C4_Witness ==
    /\ IsAlertCall /\ last.contacts = <<>>
    /\ ~last.online
    /\ last.qBefore # <<>>

\* C5: send_glof_alert and send_all_clear return a boolean and let no
\* exception escape, whatever the connectivity state and whatever the
\* channels do, a channel raising an unexpected exception included.
C5_NoEscape ==
    (last.op \in {"send_glof_alert", "send_all_clear"}) =>
        /\ ~last.raised
        /\ last.ret \in BOOLEAN

C5_Witness ==
    /\ IsAlertCall
    /\ last.sms = "raise"
    /\ last.online
    /\ ~last.raised
    /\ last.ret = FALSE

\* C6: run without interruption, get_queued_alerts returns exactly the
\* alerts put since it last ran, in put order, and leaves the queue empty
\* (so a call that follows another at once returns the empty list).
C6_DrainFifo ==
    (last.op = "get_queued_alerts") =>
        /\ last.drained = last.putBefore
        /\ last.qAfter = <<>>
        /\ offline_queue = <<>>

C6_Witness ==
    /\ last.op = "get_queued_alerts"
    /\ Len(last.drained) = MaxAlerts
    /\ last.drained[1].obj = 1
    /\ offline_queue = <<>>

\* Number of places of sequence s that hold the alert object obj.
Occurrences(s, obj) == Cardinality({i \in 1..Len(s) : s[i].obj = obj})

RECURSIVE SumOver(_, _)
SumOver(f, S) ==
    IF S = {} THEN 0
    ELSE LET t == CHOOSE x \in S : TRUE
         IN f[t] + SumOver(f, S \ {t})

Held(obj) ==
    SumOver([t \in Threads |-> Occurrences(local[t], obj)], Threads)
Returned(obj) ==
    SumOver([t \in Threads |-> Occurrences(delivered[t], obj)], Threads)

ReturnedAtomically(t) ==
    call[t].ret # None =>
        \E n \in call[t].start..call[t].end :
            /\ Len(call[t].ret[1]) <= n
            /\ call[t].ret[1] = SubSeq(enq, n - Len(call[t].ret[1]) + 1, n)

C8_DrainAtomic == \A t \in Threads : ReturnedAtomically(t)

\* C9: send_all_clear calls the same channels in the same order as
\* send_glof_alert does on the same inputs: SMS first whenever a contact has
\* a phone number, whatever is_online says.
C9_SameChannels ==
    (last.op = "send_all_clear") =>
        /\ last.trace = last.twin
        /\ HasPhone => (last.trace # <<>> /\ last.trace[1] = "sms")

\* C10: the /alert handler maps a score above 70 to CRITICAL, a score above
\* 40 and at most 70 to HIGH and a score of at most 40 to MODERATE; it never
\* produces LOW.
C10_RiskLevel ==
    resp.called =>
        /\ (resp.risk_score > 70) => resp.risk_level = "CRITICAL"
        /\ (resp.risk_score > 40 /\ resp.risk_score <= 70)
                => resp.risk_level = "HIGH"
        /\ (resp.risk_score <= 40) => resp.risk_level = "MODERATE"
        /\ (resp.risk_score = 71) => resp.risk_level = "CRITICAL"
        /\ (resp.risk_score \in {70, 41}) => resp.risk_level = "HIGH"
        /\ (resp.risk_score = 40) => resp.risk_level = "MODERATE"
        /\ resp.risk_level # "LOW"

C10_Witness ==
    /\ resp.called
    /\ resp.risk_score = 70
    /\ resp.risk_level = "HIGH"
    /\ resp.status = "success"


-----------------------------------------------------------------------------
(* Properties of the provider and directory methods *)

Contains(s, sub) == \E i \in 1..(Len(s) - Len(sub) + 1) : SubSeq(s, i, i + Len(sub) - 1) = sub
Without(s, chars) == SelectSeq(s, LAMBDA ch : ch \notin chars)
WithoutPrefix(s, prefix) == IF StartsWith(s, prefix) THEN SubSeq(s, Len(prefix) + 1, Len(s)) ELSE s

\* C11: the number handed to the SMS provider is the contact's number with a
\* leading '+91', every dash and every space removed and nothing else
\* changed, and it contains no '+91', no dash and no space.
C11_CleanNumber ==
    unit.op = "send_glof_sms" =>
        /\ unit.clean = Without(WithoutPrefix(unit.num, <<"+", "9", "1">>), {"-", " "})
        /\ ~Contains(unit.clean, <<"+", "9", "1">>)
        /\ ~Contains(unit.clean, <<"-">>)
        /\ ~Contains(unit.clean, <<" ">>)

\* C12: once the SMTP session is established (connect, STARTTLS and login
\* did not raise), send_glof_email hands a message to sendmail for every
\* recipient in turn, whatever the earlier sends did; its result carries
\* failed_recipients and successful_sends, success is true exactly when
\* failed_recipients is empty, and successful_sends plus the number of
\* failed recipients is the number of recipients.
Established == unit.net.fail \notin {"connect", "starttls", "login"}
Attempted == [i \in 1..Len(unit.session.loop.attempts) |-> unit.session.loop.attempts[i].rcpt]

C12_EveryRecipient ==
    (unit.op = "send_glof_email" /\ Established) =>
        /\ Attempted = unit.recipients
        /\ ~unit.result.error
        /\ unit.result.success <=> (unit.result.failed_recipients = <<>>)
        /\ unit.result.successful_sends + Len(unit.result.failed_recipients) = Len(unit.recipients)

\* C13: every SMTP session that send_glof_email opened has had quit called
\* on it when the call returns.
C13_SessionClosed ==
    (unit.op = "send_glof_email" /\ unit.session.opened) => unit.session.quit

\* C14: get_contacts_for_lake(lake, roles) returns, in directory order, exactly
\* the contacts that are active, whose lake_area is 'ALL' or equal to lake and
\* whose user_type is in roles when roles is given (any of the UserType roles
\* when it is not); the call changes nothing but its return value.
Covered(c, lake, roles) ==
    /\ c.active
    /\ c.lake_area \in {ALL, lake}
    /\ c.user_type \in (IF roles = {} THEN UserType ELSE roles)

CoveredAt(u) == {i \in 1..Len(u.self_contacts) : Covered(u.self_contacts[i], u.lake_name, u.user_types)}
Nth(S, k) == CHOOSE i \in S : Cardinality({j \in S : j < i}) = k - 1

ExactlyCovered(u) ==
    /\ Len(u.ret) = Cardinality(CoveredAt(u))
    /\ \A k \in 1..Len(u.ret) : u.ret[k] = u.self_contacts[Nth(CoveredAt(u), k)]

C14_ContactsForLake ==
    [][unit'.op = "get_contacts_for_lake" => (ExactlyCovered(unit') /\ UNCHANGED unitRest)]_vars

C14_Witness ==
    /\ unit.op = "get_contacts_for_lake"
    /\ unit.user_types = {"LOCAL", "ADMIN"}
    /\ unit.lake_name = PangongTso
    /\ Len(unit.self_contacts) = 3
    /\ ~unit.self_contacts[1].active
    /\ unit.self_contacts[1].lake_area = PangongTso
    /\ unit.self_contacts[1].user_type = "LOCAL"
    /\ unit.self_contacts[2].active
    /\ unit.self_contacts[2].lake_area = TsoKar
    /\ unit.self_contacts[3].lake_area = ALL
    /\ unit.ret = <<unit.self_contacts[3]>>

-----------------------------------------------------------------------------
(* Properties of the alert status, the channel order, the queue and the log *)

FinalStatus == {"SENT", "FAILED", "OFFLINE_QUEUED"}
Queued_by_call == IsAlertCall /\ last.qAfter # last.qBefore

\* C15: the status of the alert of a send_glof_alert call starts as PENDING,
\* changes at most once, to SENT, FAILED or OFFLINE_QUEUED, and is what the
\* alert carries when the call returns; the alerts get_queued_alerts hands
\* back still carry the status they were queued with.
C15_StatusForward ==
    /\ (IsAlertCall /\ HasAlert) =>
        /\ Len(last.statuses) \in {1, 2}
        /\ last.statuses[1] = "PENDING"
        /\ Len(last.statuses) = 2 => last.statuses[2] \in FinalStatus
        /\ last.alert[1].status = last.statuses[Len(last.statuses)]
    /\ \A i \in 1..Len(last.drained) : last.drained[i].status = "OFFLINE_QUEUED"

C15_Witness ==
    /\ IsAlertCall /\ HasAlert
    /\ last.sms = "raise" /\ ~last.online
    /\ last.statuses = <<"PENDING", "OFFLINE_QUEUED">>

\* C16: when send_glof_alert returns after building an alert, the alert is
\* OFFLINE_QUEUED if the call queued it, else SENT if the SMS or the email
\* succeeded, else FAILED; it is never PENDING, in particular not when the
\* call returns false.
C16_StatusMatchesOutcome ==
    (IsAlertCall /\ HasAlert) =>
        /\ last.alert[1].status # "PENDING"
        /\ Queued_by_call <=> StatusIs("OFFLINE_QUEUED")
        /\ ~Queued_by_call => (StatusIs("SENT") <=> (last.sms = "ok" \/ EmailSucceeded))
        /\ ~Queued_by_call => (StatusIs("FAILED") <=> ~(last.sms = "ok" \/ EmailSucceeded))

\* C17: in a send_glof_alert call that gets as far as dispatching, SMS is
\* attempted whenever a resolved contact has a phone number, whatever
\* is_online is, and before any email attempt; email is attempted only when a
\* provider is configured, a contact has an address and is_online is true.
C17_ChannelOrder ==
    (IsAlertCall /\ HasAlert) =>
        /\ HasPhone => (last.trace # <<>> /\ last.trace[1] = "sms")
        /\ \A i \in 1..Len(last.trace) :
            last.trace[i] = "email" =>
                /\ email_provider /\ HasEmail /\ last.online
                /\ \A j \in 1..Len(last.trace) : last.trace[j] = "sms" => j < i
        /\ last.trace \in {<<>>, <<"sms">>, <<"email">>, <<"sms", "email">>}

C17_Witness ==
    /\ IsAlertCall /\ HasAlert /\ HasPhone /\ HasEmail /\ email_provider
    /\ ~last.online
    /\ last.sms = "ok"
    /\ last.trace = <<"sms">>

\* C18: every alert (the one of the latest call, those in the offline queue,
\* those handed back by get_queued_alerts) has sent_at set exactly when its
\* status is SENT.
Stamped(alert) == (alert.sent_at # None) <=> (alert.status = "SENT")

C18_SentAt ==
    /\ \A i \in 1..Len(last.alert) : Stamped(last.alert[i])
    /\ \A i \in 1..Len(offline_queue) : Stamped(offline_queue[i])
    /\ \A i \in 1..Len(last.drained) : Stamped(last.drained[i])

C18_Witness ==
    /\ IsAlertCall /\ StatusIs("SENT")
    /\ last.alert[1].sent_at = Some(clock)
    /\ Len(offline_queue) = 1
    /\ offline_queue[1].sent_at = None

\* C19: a send_glof_alert call puts an alert on the offline queue only when
\* is_online is false, and never one it marks SENT or FAILED; every alert in
\* the queue is OFFLINE_QUEUED and is there once.
C19_QueueGate ==
    /\ Queued_by_call => (~last.online /\ StatusIs("OFFLINE_QUEUED"))
    /\ \A i \in 1..Len(offline_queue) : offline_queue[i].status = "OFFLINE_QUEUED"
    /\ \A i, j \in 1..Len(offline_queue) : offline_queue[i].obj = offline_queue[j].obj => i = j

C19_Witness ==
    /\ Queued_by_call /\ ~last.online
    /\ Len(last.qBefore) = 1
    /\ Len(offline_queue) = 2

\* C20: every outcome of a send_glof_alert call that dispatched an alert
\* (success, delivery failure, offline-queued) leaves log entries that carry
\* the lake name, the risk level and the names of the recipients.
C20_OutcomeLogged ==
    (IsAlertCall /\ HasAlert) =>
        /\ \E i \in 1..Len(last.log) : last.log[i].lake = Some(last.alert[1].glacial_lake)
        /\ \E i \in 1..Len(last.log) : last.log[i].risk = Some(last.alert[1].risk_level)
        /\ \E i \in 1..Len(last.log) : last.log[i].names = Some([k \in 1..Len(last.contacts) |-> last.contacts[k].name])

-----------------------------------------------------------------------------
(* Properties of the concurrent drain, the /alert handler, the alert ids    *)
(* and the message headers                                                  *)

\* C21: every get_queued_alerts call returns: a thread that is inside the
\* call is eventually outside it again, whatever the other threads put or
\* drain meanwhile.
C21_DrainReturns == \A t \in Threads : (pc[t] # "idle") ~> (pc[t] = "idle")

\* C22 (first part): a send_glof_alert or send_all_clear call leaves
\* is_online as it was.
C22_DispatchKeepsFlag ==
    [][(SendGlofAlert \/ SendAllClear) => is_online' = is_online]_vars

\* C22: in the /alert handler the alert system of a request is online when
\* the request ends, its alert is not OFFLINE_QUEUED and its offline queue
\* is empty; the handler touches no other offline manager.
C22_HandlerOnline ==
    /\ is_online /\ offline_queue = <<>>
    /\ resp.called =>
        /\ resp.online
        /\ resp.queue = <<>>
        /\ \A i \in 1..Len(resp.alert) : resp.alert[i].status # "OFFLINE_QUEUED"

C22_Witness ==
    /\ resp.called
    /\ resp.alert # None
    /\ resp.alert[1].status = "FAILED"
    /\ resp.status = "failed"
    /\ resp.queue = <<>>

\* C23: alerts built by different send_glof_alert calls have different ids:
\* no two alerts in the offline queue share an id, and the alert of the
\* latest call shares its id with no other alert in the queue.
C23_UniqueIds ==
    /\ \A i, j \in 1..Len(offline_queue) :
        offline_queue[i].id = offline_queue[j].id => i = j
    /\ \A k \in 1..Len(last.alert), i \in 1..Len(offline_queue) :
        offline_queue[i].id = last.alert[k].id => offline_queue[i].obj = last.alert[k].obj

\* C24: every message send_glof_email hands to sendmail carries exactly one
\* To header, the recipient it is sent to.
C24_OneToHeader ==
    unit.op = "send_glof_email" =>
        \A i \in 1..Len(unit.session.loop.attempts) :
            unit.session.loop.attempts[i].to = <<unit.session.loop.attempts[i].rcpt>>

=============================================================================
